---- MODULE Spec2Model ----
(***************************************************************************)
(* SafeRent Global (appV7.py, with verify_chain_integrity of appV5.py):    *)
(* the attested, hash-chained ledger and its request / approve / reject    *)
(* workflow over four JSON files.                                          *)
(*                                                                         *)
(* Text is modelled as a sequence of one-character strings, so that        *)
(* f-string concatenation, str() and strip() are computed as the code      *)
(* computes them.  A SHA-256 digest and an ECDSA signature are modelled as *)
(* bracketed token sequences over their input (collision-free hashing,     *)
(* unforgeable signing; the nonce of a signature is left out, so signing   *)
(* the same message twice with one key gives the same text).               *)
(***************************************************************************)
EXTENDS Integers, Sequences, FiniteSets, Bags, TLC

(***************************************************************************)
(* Bounds of the model.                                                    *)
(***************************************************************************)
MaxClock == 2
MaxSubmits == 2
MaxRuns == 2
MaxQueue == 3

(***************************************************************************)
(* Text helpers.                                                           *)
(***************************************************************************)
DigitChars == <<"0", "1", "2", "3", "4", "5", "6", "7", "8", "9">>

RECURSIVE str(_)
\* Python str(n) / f"{n}" of an integer
str(n) ==
  IF n < 0 THEN <<"-">> \o str(0 - n)
  ELSE IF n < 10 THEN <<DigitChars[n + 1]>>
  ELSE str(n \div 10) \o <<DigitChars[(n % 10) + 1]>>

Whitespace == {" ", "\t", "\n"}

RECURSIVE lstrip(_)
lstrip(s) ==
  IF s # <<>> /\ Head(s) \in Whitespace THEN lstrip(Tail(s)) ELSE s

RECURSIVE rstrip(_)
rstrip(s) ==
  IF s # <<>> /\ s[Len(s)] \in Whitespace
  THEN rstrip(SubSeq(s, 1, Len(s) - 1)) ELSE s

\* Python str.strip()
strip(s) == rstrip(lstrip(s))

(***************************************************************************)
(* IEEE-754 binary64 arithmetic on the values the score uses.              *)
(* A value is a little-endian tuple of four base-2^20 limbs counting units *)
(* of 2^-55 (every product, sum and constant below is a multiple of 2^-55  *)
(* and is smaller than 2^7).                                               *)
(***************************************************************************)
LimbBase == 1048576

Pow2(k) == CASE k = 0 -> 1 [] k = 1 -> 2 [] k = 2 -> 4 [] k = 3 -> 8
             [] k = 4 -> 16 [] k = 5 -> 32 [] k = 6 -> 64 [] k = 7 -> 128
             [] k = 8 -> 256 [] k = 9 -> 512 [] OTHER -> 1024

RECURSIVE Log2Floor(_)
Log2Floor(n) == IF n < 2 THEN 0 ELSE 1 + Log2Floor(n \div 2)

\* carry propagation over the four limbs
Normalize(l) ==
  LET c0 == l[1] \div LimbBase
      v1 == l[2] + c0
      c1 == v1 \div LimbBase
      v2 == l[3] + c1
      c2 == v2 \div LimbBase
  IN  <<l[1] % LimbBase, v1 % LimbBase, v2 % LimbBase, l[4] + c2>>

\* round to nearest, ties to even, at 53 significant bits
Round53(l) ==
  LET p == IF l[4] > 0 THEN 60 + Log2Floor(l[4])
           ELSE IF l[3] > 0 THEN 40 + Log2Floor(l[3])
           ELSE 0
      k == p - 52
  IN  IF k <= 0 THEN l
      ELSE LET q    == Pow2(k)
               r    == l[1] % q
               kept == l[1] - r
               up   == (2 * r > q) \/ (2 * r = q /\ ((l[1] \div q) % 2 = 1))
           IN  Normalize(<<kept + (IF up THEN q ELSE 0), l[2], l[3], l[4]>>)

\* int * float: the integer converts exactly, the product is rounded
FMulInt(x, c) == Round53(Normalize(<<x * c[1], x * c[2], x * c[3], x * c[4]>>))

\* float + float
FAdd(a, b) == Round53(Normalize(<<a[1] + b[1], a[2] + b[2], a[3] + b[3], a[4] + b[4]>>))

\* int(float): truncation toward zero (2^55 = 2^40 * 2^15)
FTrunc(a) == a[4] * 32 + (a[3] \div 32768)

\* the binary64 values of the literals 0.4, 0.3, 0.2 and of the integer 10
F_0_4 == <<209716, 209715, 13107, 0>>
F_0_3 == <<419430, 419430, 9830, 0>>
F_0_2 == <<629146, 629145, 6553, 0>>
F_10  == <<0, 0, 327680, 0>>

\* a float of either sign: its sign and the limbs of its magnitude; a zero
\* result of an operation below is +0.0
Float(neg, mag) == [neg |-> neg /\ mag # <<0, 0, 0, 0>>, mag |-> mag]

\* order of two magnitudes
FLess(a, b) ==
  \E i \in 1..4 : a[i] < b[i] /\ \A j \in (i + 1)..4 : a[j] = b[j]

\* difference of two magnitudes, the larger first: exact, then rounded
FSub(a, b) ==
  Round53(Normalize(<<a[1] - b[1], a[2] - b[2], a[3] - b[3], a[4] - b[4]>>))

\* int * float literal, the int of either sign
FloatMul(x, c) == Float(x < 0, FMulInt(IF x < 0 THEN 0 - x ELSE x, c))

\* float + float, the operands of either sign
FloatAdd(a, b) ==
  IF a.neg = b.neg THEN Float(a.neg, FAdd(a.mag, b.mag))
  ELSE IF FLess(a.mag, b.mag) THEN Float(b.neg, FSub(b.mag, a.mag))
  ELSE Float(a.neg, FSub(a.mag, b.mag))

\* int(float): the fraction is dropped, toward zero for either sign
FloatInt(a) == IF a.neg THEN 0 - FTrunc(a.mag) ELSE FTrunc(a.mag)

Min(a, b) == IF a < b THEN a ELSE b

\* int(income * 0.4 + guarantor * 0.3 + history * 0.2 + 10)
ScoreBeforeMin(income, guarantor, history) ==
  FloatInt(FloatAdd(FloatAdd(FloatAdd(FloatMul(income, F_0_4),
                                      FloatMul(guarantor, F_0_3)),
                             FloatMul(history, F_0_2)),
                    Float(FALSE, F_10)))

\* variant: the score is also clamped from below
calculate_rent_score_Floored(income, guarantor, history) ==
  LET v == Min(ScoreBeforeMin(income, guarantor, history), 100)
  IN  IF v < 0 THEN 0 ELSE v

\* appV7.py: calculate_rent_score
calculate_rent_score(income, guarantor, history) ==
  Min(ScoreBeforeMin(income, guarantor, history), 100)

(***************************************************************************)
(* Configuration and constants of appV7.py.                                *)
(***************************************************************************)
LEDGER_FILE   == "ledger.json"
PENDING_FILE  == "pending.json"
REJECTED_FILE == "rejected.json"
ACCEPTED_FILE == "accepted.json"

FileNames == {LEDGER_FILE, PENDING_FILE, REJECTED_FILE, ACCEPTED_FILE}

\* the demo signing key of the validator, and a key that is not registered
VALIDATOR_SK == "sk_neoma"
OTHER_SK     == "sk_other"
SigningKeys  == {VALIDATOR_SK, OTHER_SK}

\* SigningKey.verifying_key, as its hex text
verifying_key(sk) == IF sk = VALIDATOR_SK THEN "pk_neoma" ELSE "pk_other"

VALIDATOR_PUB_KEY_HEX == verifying_key(VALIDATOR_SK)

DASHBOARD_VALIDATOR == "NEOMA BS"

TRUSTED_VALIDATORS == [v \in {DASHBOARD_VALIDATOR} |-> VALIDATOR_PUB_KEY_HEX]

\* dict.get(name): "" stands for None (both are falsy)
TrustedGet(name) ==
  IF name \in DOMAIN TRUSTED_VALIDATORS THEN TRUSTED_VALIDATORS[name] ELSE ""

REJECT_REASON == "Data inconsistency detected by admin."

\* Optional values: None is the empty sequence, a value x is <<x>>
None == <<>>
Some(x) == <<x>>

(***************************************************************************)
(* Cryptography.                                                           *)
(***************************************************************************)
\* SigningKey.sign(msg).hex(): only the holder of sk can produce it
Sign(sk, message) == <<"sig[", sk, ":">> \o message \o <<"]">>

\* hashlib.sha256(content).hexdigest(): distinct contents, distinct digests
sha256(content) == <<"sha256(">> \o content \o <<")">>

\* variant: accepts a well-formed signature made with any key
verify_signature_AnyKey(message, signature_hex, pub_key_hex) ==
  \E sk \in SigningKeys : signature_hex = Sign(sk, message)

\* key texts bytes.fromhex rejects, and hex texts of another length than a
\* key has
NonHexKeys == {"demo-key"}

WellFormedKeys == {verifying_key(sk) : sk \in SigningKeys}

\* signature texts bytes.fromhex rejects
NonHexSignatures == {<<"z", "z">>}

\* the body of the try of verify_signature: what it returns, or the
\* exception it raises.  VerifyingKey.from_string(bytes.fromhex(pub_key_hex))
\* comes first, then bytes.fromhex(signature_hex), then vk.verify, which
\* raises on a signature of the wrong length or of another key or message
VerifyTry(message, signature_hex, pub_key_hex) ==
  IF pub_key_hex \in NonHexKeys THEN "ValueError"
  ELSE IF pub_key_hex \notin WellFormedKeys THEN "MalformedPointError"
  ELSE IF signature_hex \in NonHexSignatures THEN "ValueError"
  ELSE IF \E sk \in SigningKeys :
             /\ verifying_key(sk) = pub_key_hex
             /\ signature_hex = Sign(sk, message)
       THEN "True"
  ELSE "BadSignatureError"

\* variant: only BadSignatureError is caught
VerifyCall_NarrowExcept(message, signature_hex, pub_key_hex) ==
  LET r == VerifyTry(message, signature_hex, pub_key_hex)
  IN  IF r = "BadSignatureError" THEN "False" ELSE r

\* what a call of verify_signature gives its caller: the value of the try
\* body, "False" from the bare except, or the exception that gets out
VerifyCall(message, signature_hex, pub_key_hex) ==
  LET r == VerifyTry(message, signature_hex, pub_key_hex)
  IN  IF r = "True" THEN "True" ELSE "False"

\* LedgerSystem.verify_signature: False on a mismatch or on any exception
verify_signature(message, signature_hex, pub_key_hex) ==
  VerifyCall(message, signature_hex, pub_key_hex) = "True"

\* variant: the signed message leaves the score out
CanonicalMessage_NoScore(student_id, details, score) ==
  student_id \o details

\* the message the dashboard signs and add_signed_block verifies
CanonicalMessage(student_id, details, score) ==
  student_id \o details \o str(score)

\* datetime.now().isoformat() at clock value t
isoformat(t) == <<"T">> \o str(t)

(***************************************************************************)
(* DataManager: the four JSON files.  fs maps a file name to               *)
(* [exists, parses, content]; content is the list last written to the file *)
(* and parses tells whether json.load can still read it back.              *)
(***************************************************************************)
\* a file that is not there
AbsentFile == [exists |-> FALSE, parses |-> TRUE, content |-> <<>>]

\* variant: what was written is returned although json.load fails
load_json_NoExcept(fs, filename) ==
  IF ~fs[filename].exists THEN <<>> ELSE fs[filename].content

\* [] when the file is missing and, from the bare except, when json.load
\* raises
load_json(fs, filename) ==
  IF ~fs[filename].exists THEN <<>>
  ELSE IF ~fs[filename].parses THEN <<>>
  ELSE fs[filename].content

save_json(fs, filename, data) ==
  [fs EXCEPT ![filename] =
     [exists |-> TRUE, parses |-> TRUE, content |-> data]]

\* variant: the request is put at the head of the list
add_pending_request_Prepend(fs, request) ==
  save_json(fs, PENDING_FILE, <<request>> \o load_json(fs, PENDING_FILE))

add_pending_request(fs, request) ==
  save_json(fs, PENDING_FILE, Append(load_json(fs, PENDING_FILE), request))

get_pending_requests(fs) == load_json(fs, PENDING_FILE)

\* variant: the head of what is kept is dropped as well
WithoutTimestamp_AndHead(data, request_timestamp) ==
  LET kept == SelectSeq(data, LAMBDA req : req.timestamp # request_timestamp)
  IN  IF kept # <<>> THEN Tail(kept) ELSE kept

\* the list comprehension of remove_pending_request
WithoutTimestamp(data, request_timestamp) ==
  SelectSeq(data, LAMBDA req : req.timestamp # request_timestamp)

\* variant: the comparison of the filter is inverted
remove_pending_request_Inverted(fs, request_timestamp) ==
  save_json(fs, PENDING_FILE,
            SelectSeq(load_json(fs, PENDING_FILE),
                      LAMBDA req : req.timestamp = request_timestamp))

remove_pending_request(fs, request_timestamp) ==
  save_json(fs, PENDING_FILE,
            WithoutTimestamp(load_json(fs, PENDING_FILE), request_timestamp))

\* variant: the list is scanned oldest first
LastOfStudent_First(data, student_id, i) ==
  LET matches == {j \in 1..i : data[j].student_id = student_id}
  IN  IF matches = {} THEN None
      ELSE Some(data[CHOOSE j \in matches : \A k \in matches : j <= k])

\* for item in reversed(data): if item["student_id"] == student_id: return item
RECURSIVE LastOfStudent(_, _, _)
LastOfStudent(data, student_id, i) ==
  IF i = 0 THEN None
  ELSE IF data[i].student_id = student_id THEN Some(data[i])
  ELSE LastOfStudent(data, student_id, i - 1)

WithoutStudent(data, student_id) ==
  SelectSeq(data, LAMBDA item : item.student_id # student_id)

\* variant: the reason is not stored
add_rejection_NoReason(fs, student_id, reason, t) ==
  save_json(fs, REJECTED_FILE,
            Append(load_json(fs, REJECTED_FILE),
                   [student_id |-> student_id, reason |-> "", timestamp |-> t]))

add_rejection(fs, student_id, reason, t) ==
  save_json(fs, REJECTED_FILE,
            Append(load_json(fs, REJECTED_FILE),
                   [student_id |-> student_id, reason |-> reason, timestamp |-> t]))

get_rejection(fs, student_id) ==
  LET data == load_json(fs, REJECTED_FILE)
  IN  LastOfStudent(data, student_id, Len(data))

clear_rejection(fs, student_id) ==
  save_json(fs, REJECTED_FILE,
            WithoutStudent(load_json(fs, REJECTED_FILE), student_id))

add_acceptance(fs, student_id, t) ==
  save_json(fs, ACCEPTED_FILE,
            Append(load_json(fs, ACCEPTED_FILE),
                   [student_id |-> student_id, timestamp |-> t]))

get_acceptance(fs, student_id) ==
  LET data == load_json(fs, ACCEPTED_FILE)
  IN  LastOfStudent(data, student_id, Len(data))

\* variant: the notices of every student are dropped
clear_acceptance_All(fs, student_id) ==
  save_json(fs, ACCEPTED_FILE, <<>>)

clear_acceptance(fs, student_id) ==
  save_json(fs, ACCEPTED_FILE,
            WithoutStudent(load_json(fs, ACCEPTED_FILE), student_id))

(***************************************************************************)
(* LedgerSystem.                                                           *)
(***************************************************************************)
load_chain(fs) == load_json(fs, LEDGER_FILE)

save_chain(fs, chain) == save_json(fs, LEDGER_FILE, chain)

get_last_block(chain) ==
  IF chain # <<>> THEN Some(chain[Len(chain)]) ELSE None

\* variant: every block is given the previous_hash of a first block
PrevHash_Sentinel(chain) == <<"0">>

\* variant: links to the tail's previous_hash instead of its hash
PrevHash_WrongField(chain) ==
  LET previous_block == get_last_block(chain)
  IN  IF previous_block # None THEN previous_block[1].previous_hash ELSE <<"0">>

\* prev_hash = previous_block.get("hash", "0") if previous_block else "0"
PrevHash(chain) ==
  LET previous_block == get_last_block(chain)
  IN  IF previous_block # None THEN previous_block[1].hash ELSE <<"0">>

\* variant: the signature is not verified
SignedBlockError_NoVerify(request_data, signature, validator_name) ==
  IF TrustedGet(validator_name) = "" THEN "Validator not found."
  ELSE "Block mined."

\* variant: the signature is checked, under the dashboard's key, before
\* the validator name is looked up
SignedBlockError_SignatureFirst(request_data, signature, validator_name) ==
  LET message_to_verify ==
        CanonicalMessage(request_data.student_id, request_data.details,
                         request_data.score)
  IN  IF ~verify_signature(message_to_verify, signature,
                           VALIDATOR_PUB_KEY_HEX)
      THEN "Invalid Signature!"
      ELSE IF TrustedGet(validator_name) = "" THEN "Validator not found."
      ELSE "Block mined."

\* variant: the append verifies the fields in another order than the
\* dashboard signs them
SignedBlockError_OtherMessage(request_data, signature, validator_name) ==
  LET message_to_verify ==
        request_data.details \o request_data.student_id
          \o str(request_data.score)
      pub_key == TrustedGet(validator_name)
  IN  IF pub_key = "" THEN "Validator not found."
      ELSE IF ~verify_signature(message_to_verify, signature, pub_key)
           THEN "Invalid Signature!"
      ELSE "Block mined."

\* the two checks of add_signed_block, in the order of the code
SignedBlockError(request_data, signature, validator_name) ==
  LET message_to_verify ==
        CanonicalMessage(request_data.student_id, request_data.details,
                         request_data.score)
      pub_key == TrustedGet(validator_name)
  IN  IF pub_key = "" THEN "Validator not found."
      ELSE IF ~verify_signature(message_to_verify, signature, pub_key)
           THEN "Invalid Signature!"
      ELSE "Block mined."

\* variant: the index counts the blocks already in the chain
NewBlock_IndexOfTail(chain, request_data, signature, validator_name, t) ==
  LET prev_hash == PrevHash(chain)
      timestamp == isoformat(t)
      block_content == request_data.student_id \o request_data.details
                         \o timestamp \o prev_hash \o signature
  IN  [index         |-> Len(chain),
       timestamp     |-> timestamp,
       student_id    |-> request_data.student_id,
       details       |-> request_data.details,
       score         |-> request_data.score,
       validator     |-> validator_name,
       signature     |-> signature,
       previous_hash |-> prev_hash,
       hash          |-> sha256(block_content)]

\* variant: the score is part of the hashed content
NewBlock_HashesScore(chain, request_data, signature, validator_name, t) ==
  LET prev_hash == PrevHash(chain)
      timestamp == isoformat(t)
      block_content == request_data.student_id \o request_data.details
                         \o str(request_data.score)
                         \o timestamp \o prev_hash \o signature
  IN  [index         |-> Len(chain) + 1,
       timestamp     |-> timestamp,
       student_id    |-> request_data.student_id,
       details       |-> request_data.details,
       score         |-> request_data.score,
       validator     |-> validator_name,
       signature     |-> signature,
       previous_hash |-> prev_hash,
       hash          |-> sha256(block_content)]

\* the block add_signed_block builds on top of chain at clock value t
NewBlock(chain, request_data, signature, validator_name, t) ==
  LET prev_hash == PrevHash(chain)
      timestamp == isoformat(t)
      block_content == request_data.student_id \o request_data.details
                         \o timestamp \o prev_hash \o signature
  IN  [index         |-> Len(chain) + 1,
       timestamp     |-> timestamp,
       student_id    |-> request_data.student_id,
       details       |-> request_data.details,
       score         |-> request_data.score,
       validator     |-> validator_name,
       signature     |-> signature,
       previous_hash |-> prev_hash,
       hash          |-> sha256(block_content)]

\* add_signed_block up to, and without, save_chain: the result and self.chain
SignedBlockInMemory(chain, request_data, signature, validator_name, t) ==
  LET msg == SignedBlockError(request_data, signature, validator_name)
  IN  IF msg # "Block mined."
      THEN [success |-> FALSE, msg |-> msg, chain |-> chain]
      ELSE [success |-> TRUE, msg |-> msg,
            chain |-> Append(chain, NewBlock(chain, request_data, signature,
                                             validator_name, t))]

\* variant: the block is built and saved before the two checks are made
add_signed_block_SavesFirst(fs, request_data, signature, validator_name, t) ==
  LET chain == load_chain(fs)
      msg   == SignedBlockError(request_data, signature, validator_name)
  IN  [success |-> msg = "Block mined.", msg |-> msg,
       fs |-> save_chain(fs, Append(chain,
                                    NewBlock(chain, request_data, signature,
                                             validator_name, t)))]

\* LedgerSystem.add_signed_block, run without interruption
add_signed_block(fs, request_data, signature, validator_name, t) ==
  LET r == SignedBlockInMemory(load_chain(fs), request_data, signature,
                               validator_name, t)
  IN  [success |-> r.success, msg |-> r.msg,
       fs |-> IF r.success THEN save_chain(fs, r.chain) ELSE fs]

\* variant: the chain is scanned oldest first
LatestBlockOf_Oldest(chain, target_id, i) ==
  LET matches == {j \in 1..i : strip(chain[j].student_id) = target_id}
  IN  IF matches = {} THEN None
      ELSE Some(chain[CHOOSE j \in matches : \A k \in matches : j <= k])

\* for block in reversed(self.chain): compare the stripped ids as text
RECURSIVE LatestBlockOf(_, _, _)
LatestBlockOf(chain, target_id, i) ==
  IF i = 0 THEN None
  ELSE IF strip(chain[i].student_id) = target_id THEN Some(chain[i])
  ELSE LatestBlockOf(chain, target_id, i - 1)

\* variant: an id without a block is answered from the pending queue
get_student_score_OrPending(fs, student_id) ==
  LET chain   == load_chain(fs)
      found   == LatestBlockOf(chain, strip(student_id), Len(chain))
      pending == get_pending_requests(fs)
  IN  IF found # None THEN found
      ELSE LastOfStudent(pending, strip(student_id), Len(pending))

get_student_score(fs, student_id) ==
  LET chain == load_chain(fs)
  IN  LatestBlockOf(chain, strip(student_id), Len(chain))

\* variant: the check also recomputes the hash of every block
verify_chain_integrity_Recomputes(chain) ==
  /\ \A i \in 2..Len(chain) : ~(chain[i].previous_hash # chain[i - 1].hash)
  /\ \A i \in 1..Len(chain) :
        chain[i].hash = sha256(chain[i].student_id \o chain[i].details
                                 \o chain[i].timestamp
                                 \o chain[i].previous_hash
                                 \o chain[i].signature)

\* appV5.py: LedgerSystem.verify_chain_integrity
verify_chain_integrity(chain) ==
  \A i \in 2..Len(chain) : ~(chain[i].previous_hash # chain[i - 1].hash)

(***************************************************************************)
(* Inputs.                                                                 *)
(***************************************************************************)
\* the student sessions: st.session_state["student_id"] and the slider
\* triple (income, guarantor, history) the student sends
Submissions == {<< <<"a", "1">>, <<80, 80, 80>> >>,
                << <<"b", "2">>, <<0, 62, 2>> >>}

Subjects == {sp[1] : sp \in Submissions}

Profiles == {sp[2] : sp \in Submissions}

\* the verify_id a landlord may present
LookupIds == {<<"b", "2">>, <<" ", "a", "1", " ">>, <<"z", "9">>}

\* the validator name and signing key an Approve may carry: the pair of
\* the dashboard, a foreign key, an unregistered name with either key
ApproveInputs == {<<DASHBOARD_VALIDATOR, VALIDATOR_SK>>,
                  <<DASHBOARD_VALIDATOR, OTHER_SK>>,
                  <<"UNKNOWN", VALIDATOR_SK>>,
                  <<"UNKNOWN", OTHER_SK>>}

\* variant: the guarantor value is written first
Details_GuarantorFirst(p) ==
  str(p[2]) \o <<"-">> \o str(p[1]) \o <<"-">> \o str(p[3])

\* f"{income}-{guarantor}-{history}"
Details(p) == str(p[1]) \o <<"-">> \o str(p[2]) \o <<"-">> \o str(p[3])

\* the request dict the student view builds at clock value t
NewRequest(student_id, p, t) ==
  [student_id |-> student_id,
   details    |-> Details(p),
   score      |-> calculate_rent_score(p[1], p[2], p[3]),
   timestamp  |-> t]

(***************************************************************************)
(* State.                                                                  *)
(***************************************************************************)
VARIABLES
  disk,   \* the four files: file name -> [exists, parses, content]
  now,    \* the clock read by time.time() and datetime.now()
  sess,   \* validator dashboard sessions running a handler step by step
  last,   \* the operation completed by the latest step and its outcome
  hist    \* history: bags of requests submitted, approved, rejected, and
          \* the number of dashboard handler runs started

vars == <<disk, now, sess, last, hist>>

Sessions == {1, 2}

\* pc: the next step of the handler the session runs; req: the entry of
\* pending_list whose button fired; chain: ledger_system.chain; data: the
\* local list of the DataManager call in progress; stale records that req
\* was no longer in the pending file when add_signed_block was called
IdleSession ==
  [pc |-> "idle", handler |-> "none", req |-> None, chain |-> <<>>,
   data |-> <<>>, stale |-> FALSE]

\* validator and signer are the name and the key an Approve was given
Outcome(op, req, ok, msg, id, result) ==
  [op |-> op, req |-> req, ok |-> ok, msg |-> msg, id |-> id,
   result |-> result, validator |-> "", signer |-> ""]

Init ==
  /\ disk = [f \in FileNames |-> AbsentFile]
  /\ now = 1
  /\ sess = [s \in Sessions |-> IdleSession]
  /\ last = Outcome("init", None, TRUE, "", <<>>, None)
  /\ hist = [submitted |-> EmptyBag, approved |-> EmptyBag,
             rejected |-> EmptyBag, runs |-> 0]

Elements(seq) == {seq[i] : i \in 1..Len(seq)}

(***************************************************************************)
(* Operations run one at a time (each handler without interruption).       *)
(***************************************************************************)
\* time passes between two readings of the clock
Tick ==
  /\ now < MaxClock
  /\ now' = now + 1
  /\ last' = Outcome("tick", None, TRUE, "", <<>>, None)
  /\ UNCHANGED <<disk, sess, hist>>

\* student view, "Send for Validation", as long as fewer than max requests
\* have been sent
SubmitUpTo(student_id, p, max) ==
  LET req == NewRequest(student_id, p, now)
  IN  /\ BagCardinality(hist.submitted) < max
      /\ disk' = add_pending_request(disk, req)
      /\ last' = Outcome("submit", Some(req), TRUE, "", student_id, None)
      /\ hist' = [hist EXCEPT !.submitted = @ (+) SetToBag({req})]
      /\ UNCHANGED <<now, sess>>

Submit(student_id, p) == SubmitUpTo(student_id, p, MaxSubmits)

\* validator dashboard, "Accept" on an entry of the pending list, signing
\* with key sk under the name validator_name (the dashboard itself uses
\* VALIDATOR_SK and "NEOMA BS")
Approve(req, validator_name, sk) ==
  LET msg       == CanonicalMessage(req.student_id, req.details, req.score)
      signature == Sign(sk, msg)
      r         == add_signed_block(disk, req, signature, validator_name, now)
  IN  /\ req \in Elements(get_pending_requests(disk))
      /\ disk' = IF r.success
                 THEN add_acceptance(remove_pending_request(r.fs, req.timestamp),
                                     req.student_id, now)
                 ELSE r.fs
      /\ last' = [Outcome("approve", Some(req), r.success, r.msg,
                          req.student_id, None)
                    EXCEPT !.validator = validator_name, !.signer = sk]
      /\ hist' = IF r.success
                 THEN [hist EXCEPT !.approved = @ (+) SetToBag({req})]
                 ELSE hist
      /\ UNCHANGED <<now, sess>>

\* validator dashboard, "Reject" on an entry of the pending list
Reject(req) ==
  /\ req \in Elements(get_pending_requests(disk))
  /\ disk' = add_rejection(remove_pending_request(disk, req.timestamp),
                           req.student_id, REJECT_REASON, now)
  /\ last' = Outcome("reject", Some(req), TRUE, REJECT_REASON,
                     req.student_id, None)
  /\ hist' = [hist EXCEPT !.rejected = @ (+) SetToBag({req})]
  /\ UNCHANGED <<now, sess>>

\* variant: the lookup empties the ledger file after reading it
Lookup_Consuming(verify_id) ==
  /\ last' = Outcome("lookup", None, TRUE, "", verify_id,
                     get_student_score(disk, strip(verify_id)))
  /\ disk' = save_chain(disk, <<>>)
  /\ UNCHANGED <<now, sess, hist>>

\* landlord portal: record = get_student_score(verify_id.strip())
Lookup(verify_id) ==
  /\ last' = Outcome("lookup", None, TRUE, "", verify_id,
                     get_student_score(disk, strip(verify_id)))
  /\ UNCHANGED <<disk, now, sess, hist>>

\* student view, "Dismiss Success Message"
DismissAcceptance(student_id) ==
  /\ get_acceptance(disk, student_id) # None
  /\ disk' = clear_acceptance(disk, student_id)
  /\ last' = Outcome("clear_acceptance", None, TRUE, "", student_id, None)
  /\ UNCHANGED <<now, sess, hist>>

\* student view, "Dismiss Notification"
DismissRejection(student_id) ==
  /\ get_rejection(disk, student_id) # None
  /\ disk' = clear_rejection(disk, student_id)
  /\ last' = Outcome("clear_rejection", None, TRUE, "", student_id, None)
  /\ UNCHANGED <<now, sess, hist>>

\* student view, script run: the notices of the student are read and shown
ViewNotices(student_id) ==
  /\ last' = Outcome("notices", None, TRUE, "", student_id,
                     <<get_acceptance(disk, student_id),
                       get_rejection(disk, student_id)>>)
  /\ UNCHANGED <<disk, now, sess, hist>>

\* VerifyIntegrity over the persisted chain
CheckIntegrity ==
  /\ last' = Outcome("verify", None, verify_chain_integrity(load_chain(disk)),
                     "", <<>>, None)
  /\ UNCHANGED <<disk, now, sess, hist>>

AllRequests ==
  {NewRequest(sp[1], sp[2], t) : sp \in Submissions, t \in 1..MaxClock}

Next ==
  \/ Tick
  \/ \E sp \in Submissions : Submit(sp[1], sp[2])
  \/ \E req \in AllRequests, a \in ApproveInputs : Approve(req, a[1], a[2])
  \/ \E req \in AllRequests : Reject(req)
  \/ \E id \in LookupIds : Lookup(id)
  \/ \E s \in Subjects : DismissAcceptance(s)
  \/ \E s \in Subjects : DismissRejection(s)
  \/ \E s \in Subjects : ViewNotices(s)
  \/ CheckIntegrity

Spec == Init /\ [][Next]_vars

(***************************************************************************)
(* Concurrent validator dashboard sessions.  Every session runs the script *)
(* in its own thread against the shared files, so the handlers interleave  *)
(* at each file read and each file write.                                  *)
(***************************************************************************)
DashboardStep == Outcome("dashboard", None, TRUE, "", <<>>, None)

\* script run: pending_list is read and the "Accept" button of req fires
DashAccept(s, req) ==
  /\ sess[s].pc = "idle"
  /\ req \in Elements(get_pending_requests(disk))
  /\ hist.runs < MaxRuns
  /\ sess' = [sess EXCEPT ![s] = [IdleSession EXCEPT !.pc = "acc_load",
                                    !.handler = "accept", !.req = Some(req)]]
  /\ hist' = [hist EXCEPT !.runs = @ + 1]
  /\ last' = DashboardStep
  /\ UNCHANGED <<disk, now>>

\* script run: pending_list is read and the "Reject" button of req fires
DashReject(s, req) ==
  /\ sess[s].pc = "idle"
  /\ req \in Elements(get_pending_requests(disk))
  /\ hist.runs < MaxRuns
  /\ sess' = [sess EXCEPT ![s] = [IdleSession EXCEPT !.pc = "rm_load",
                                    !.handler = "reject", !.req = Some(req)]]
  /\ hist' = [hist EXCEPT !.runs = @ + 1]
  /\ last' = DashboardStep
  /\ UNCHANGED <<disk, now>>

\* the request is signed; add_signed_block loads the chain, verifies and
\* appends the new block to self.chain
AccLoad(s) ==
  /\ sess[s].pc = "acc_load"
  /\ LET req       == sess[s].req[1]
         msg       == CanonicalMessage(req.student_id, req.details, req.score)
         signature == Sign(VALIDATOR_SK, msg)
         r         == SignedBlockInMemory(load_chain(disk), req, signature,
                                          DASHBOARD_VALIDATOR, now)
         gone      == req \notin Elements(get_pending_requests(disk))
     IN  sess' = [sess EXCEPT ![s] =
                    IF r.success
                    THEN [@ EXCEPT !.pc = "acc_save", !.chain = r.chain,
                                   !.stale = gone]
                    ELSE IdleSession]
  /\ last' = DashboardStep
  /\ UNCHANGED <<disk, now, hist>>

\* add_signed_block: save_chain
AccSave(s) ==
  /\ sess[s].pc = "acc_save"
  /\ disk' = save_chain(disk, sess[s].chain)
  /\ sess' = [sess EXCEPT ![s].pc = "rm_load"]
  /\ hist' = [hist EXCEPT !.approved = @ (+) SetToBag({sess[s].req[1]})]
  /\ last' = DashboardStep
  /\ UNCHANGED now

\* remove_pending_request: load_json and the list comprehension
RmLoad(s) ==
  /\ sess[s].pc = "rm_load"
  /\ sess' = [sess EXCEPT ![s].pc = "rm_save",
                          ![s].data = WithoutTimestamp(load_json(disk, PENDING_FILE),
                                                       sess[s].req[1].timestamp)]
  /\ last' = DashboardStep
  /\ UNCHANGED <<disk, now, hist>>

\* remove_pending_request: save_json
RmSave(s) ==
  /\ sess[s].pc = "rm_save"
  /\ disk' = save_json(disk, PENDING_FILE, sess[s].data)
  /\ sess' = [sess EXCEPT ![s].pc = "note_load", ![s].data = <<>>]
  /\ last' = DashboardStep
  /\ UNCHANGED <<now, hist>>

\* add_acceptance / add_rejection: load_json and append
NoteLoad(s) ==
  /\ sess[s].pc = "note_load"
  /\ LET req == sess[s].req[1]
     IN  sess' = [sess EXCEPT ![s].pc = "note_save",
                    ![s].data =
                      IF sess[s].handler = "accept"
                      THEN Append(load_json(disk, ACCEPTED_FILE),
                                  [student_id |-> req.student_id,
                                   timestamp |-> now])
                      ELSE Append(load_json(disk, REJECTED_FILE),
                                  [student_id |-> req.student_id,
                                   reason |-> REJECT_REASON,
                                   timestamp |-> now])]
  /\ last' = DashboardStep
  /\ UNCHANGED <<disk, now, hist>>

\* add_acceptance / add_rejection: save_json; the handler is done
NoteSave(s) ==
  /\ sess[s].pc = "note_save"
  /\ disk' = save_json(disk,
                       IF sess[s].handler = "accept" THEN ACCEPTED_FILE
                                                     ELSE REJECTED_FILE,
                       sess[s].data)
  /\ hist' = IF sess[s].handler = "reject"
             THEN [hist EXCEPT !.rejected = @ (+) SetToBag({sess[s].req[1]})]
             ELSE hist
  /\ sess' = [sess EXCEPT ![s] = IdleSession]
  /\ last' = DashboardStep
  /\ UNCHANGED now

NextConc ==
  \/ Tick
  \/ \E sp \in Submissions : Submit(sp[1], sp[2])
  \/ \E s \in Sessions, req \in AllRequests : DashAccept(s, req)
  \/ \E s \in Sessions, req \in AllRequests : DashReject(s, req)
  \/ \E s \in Sessions : AccLoad(s)
  \/ \E s \in Sessions : AccSave(s)
  \/ \E s \in Sessions : RmLoad(s)
  \/ \E s \in Sessions : RmSave(s)
  \/ \E s \in Sessions : NoteLoad(s)
  \/ \E s \in Sessions : NoteSave(s)

SpecConc == Init /\ [][NextConc]_vars

(***************************************************************************)
(* A dashboard session writing the ledger while landlords read it.         *)
(* save_json opens the file with mode "w", which empties it, and json.dump *)
(* then writes the list; a load_json between the two finds a file json.load*)
(* cannot parse, so its bare except returns [].  The writes of the other   *)
(* files are kept whole here.                                              *)
(***************************************************************************)
Writer == 1

\* open(filename, "w"): the file exists and is empty, which json.load
\* does not parse
open_w(fs, filename) ==
  [fs EXCEPT ![filename] =
     [exists |-> TRUE, parses |-> FALSE, content |-> <<>>]]

\* save_chain: with open(filename, "w") as f
AccOpen(s) ==
  /\ sess[s].pc = "acc_save"
  /\ disk' = open_w(disk, LEDGER_FILE)
  /\ sess' = [sess EXCEPT ![s].pc = "acc_dump"]
  /\ last' = DashboardStep
  /\ UNCHANGED <<now, hist>>

\* save_chain: json.dump(data, f, indent=4) and the close of the file
AccDump(s) ==
  /\ sess[s].pc = "acc_dump"
  /\ disk' = save_chain(disk, sess[s].chain)
  /\ sess' = [sess EXCEPT ![s].pc = "rm_load"]
  /\ hist' = [hist EXCEPT !.approved = @ (+) SetToBag({sess[s].req[1]})]
  /\ last' = DashboardStep
  /\ UNCHANGED now

\* what the dashboard shows when save_chain raises: the exception leaves
\* add_signed_block and the Accept handler, and the script run ends
PersistFailed(req) ==
  Outcome("persist_failed", Some(req), FALSE, "OSError", req.student_id, None)

\* save_chain: open(filename, "w") raises (no permission, no such directory)
AccOpenFail(s) ==
  /\ sess[s].pc = "acc_save"
  /\ sess' = [sess EXCEPT ![s] = IdleSession]
  /\ last' = PersistFailed(sess[s].req[1])
  /\ UNCHANGED <<disk, now, hist>>

\* save_chain: json.dump or the close of the file raises (disk full); the
\* file stays as the open and the part of the write left it
AccDumpFail(s) ==
  /\ sess[s].pc = "acc_dump"
  /\ sess' = [sess EXCEPT ![s] = IdleSession]
  /\ last' = PersistFailed(sess[s].req[1])
  /\ UNCHANGED <<disk, now, hist>>

NextIO ==
  \/ Tick
  \/ \E sp \in Submissions : Submit(sp[1], sp[2])
  \/ \E req \in AllRequests : DashAccept(Writer, req)
  \/ AccLoad(Writer)
  \/ AccOpen(Writer)
  \/ AccDump(Writer)
  \/ AccOpenFail(Writer)
  \/ AccDumpFail(Writer)
  \/ RmLoad(Writer)
  \/ RmSave(Writer)
  \/ NoteLoad(Writer)
  \/ NoteSave(Writer)
  \/ \E id \in LookupIds : Lookup(id)
  \/ CheckIntegrity

SpecIO == Init /\ [][NextIO]_vars

(***************************************************************************)
(* The score shown by the student view for the values of its sliders.      *)
(***************************************************************************)
\* st.slider(label, 0, 100, 50)
SliderRange == 0..100

IncomeInputs == {0, 1, 80, 100}

GuarantorInputs == SliderRange

HistoryInputs == {0, 2, 7, 80, 100}

\* a script run of the student view begins with the sliders at some values
InitScore ==
  /\ disk = [f \in FileNames |-> AbsentFile]
  /\ now = 1
  /\ sess = [s \in Sessions |-> IdleSession]
  /\ hist = [submitted |-> EmptyBag, approved |-> EmptyBag,
             rejected |-> EmptyBag, runs |-> 0]
  /\ \E income \in IncomeInputs, guarantor \in GuarantorInputs,
        history \in HistoryInputs :
        last = Outcome("sliders", None, TRUE, "",
                       <<income, guarantor, history>>, None)

\* current_score = calculate_rent_score(income, guarantor, history)
ProjectScore ==
  /\ last.op = "sliders"
  /\ last' = Outcome("score", None, TRUE, "", last.id,
                     Some(calculate_rent_score(last.id[1], last.id[2],
                                               last.id[3])))
  /\ UNCHANGED <<disk, now, sess, hist>>

NextScore == ProjectScore

SpecScore == InitScore /\ [][NextScore]_vars

(***************************************************************************)
(* verify_signature called with arbitrary texts.                           *)
(***************************************************************************)
VerifyMessages ==
  {<<>>} \cup {CanonicalMessage(sp[1], Details(sp[2]),
                                calculate_rent_score(sp[2][1], sp[2][2],
                                                     sp[2][3])) :
                 sp \in Submissions}

\* signatures of either key, a text that is not hex, a hex text too short
\* for a signature, the empty text
VerifySignatures ==
  {Sign(sk, message) : sk \in SigningKeys, message \in VerifyMessages}
    \cup NonHexSignatures \cup {<<"a", "b">>, <<>>}

\* the two keys, a text that is not hex, a hex text too short for a key,
\* the empty text
VerifyKeys == WellFormedKeys \cup NonHexKeys \cup {"abcd", ""}

InitVerify ==
  /\ disk = [f \in FileNames |-> AbsentFile]
  /\ now = 1
  /\ sess = [s \in Sessions |-> IdleSession]
  /\ hist = [submitted |-> EmptyBag, approved |-> EmptyBag,
             rejected |-> EmptyBag, runs |-> 0]
  /\ \E message \in VerifyMessages, signature_hex \in VerifySignatures,
        pub_key_hex \in VerifyKeys :
        last = [Outcome("verify_args", None, TRUE, "", message,
                        Some(signature_hex))
                  EXCEPT !.signer = pub_key_hex]

\* self.verify_signature(message, signature_hex, pub_key_hex): msg is what
\* the caller gets
VerifyStep ==
  /\ last.op = "verify_args"
  /\ LET call == VerifyCall(last.id, last.result[1], last.signer)
     IN  last' = [Outcome("verify_signature", None,
                          verify_signature(last.id, last.result[1],
                                           last.signer),
                          call, last.id, last.result)
                    EXCEPT !.signer = last.signer]
  /\ UNCHANGED <<disk, now, sess, hist>>

NextVerify == VerifyStep

SpecVerify == InitVerify /\ [][NextVerify]_vars

(***************************************************************************)
(* The operations run one at a time on files that can get damaged between  *)
(* two operations (a write cut short, an edit by hand).                    *)
(***************************************************************************)
\* the file keeps its bytes but json.load no longer reads them
Damage(f) ==
  /\ disk[f].exists
  /\ disk[f].parses
  /\ disk' = [disk EXCEPT ![f].parses = FALSE]
  /\ last' = Outcome("damage", None, TRUE, f, <<>>, None)
  /\ UNCHANGED <<now, sess, hist>>

NextFault ==
  \/ Tick
  \/ \E sp \in Submissions : Submit(sp[1], sp[2])
  \/ \E req \in AllRequests : Approve(req, DASHBOARD_VALIDATOR, VALIDATOR_SK)
  \/ \E req \in AllRequests : Reject(req)
  \/ \E f \in FileNames : Damage(f)

SpecFault == Init /\ [][NextFault]_vars

(***************************************************************************)
(* A dashboard session whose process can stop between two file operations  *)
(* of a handler; the validator then presses the button again.              *)
(***************************************************************************)
\* the process stops: the handler's remaining calls never run; msg tells
\* the step that was next
Crash(s) ==
  /\ sess[s].pc # "idle"
  /\ sess' = [sess EXCEPT ![s] = IdleSession]
  /\ last' = Outcome("crash", sess[s].req, TRUE, sess[s].pc,
                     sess[s].req[1].student_id, None)
  /\ UNCHANGED <<disk, now, hist>>

NextCrash ==
  \/ Tick
  \/ \E sp \in Submissions : Submit(sp[1], sp[2])
  \/ \E req \in AllRequests : DashAccept(Writer, req)
  \/ AccLoad(Writer)
  \/ AccSave(Writer)
  \/ RmLoad(Writer)
  \/ RmSave(Writer)
  \/ NoteLoad(Writer)
  \/ NoteSave(Writer)
  \/ Crash(Writer)

SpecCrash == Init /\ [][NextCrash]_vars

(***************************************************************************)
(* The pending list under up to MaxQueue submissions, with the dashboard   *)
(* accepting and rejecting, one operation at a time.                       *)
(***************************************************************************)
NextQueue ==
  \/ Tick
  \/ \E sp \in Submissions : SubmitUpTo(sp[1], sp[2], MaxQueue)
  \/ \E req \in AllRequests : Approve(req, DASHBOARD_VALIDATOR, VALIDATOR_SK)
  \/ \E req \in AllRequests : Reject(req)

SpecQueue == Init /\ [][NextQueue]_vars

(***************************************************************************)
(* Student sessions sending requests while other sessions send or reject:  *)
(* add_pending_request and remove_pending_request each load pending.json   *)
(* and save it, and the sessions interleave between the two.               *)
(***************************************************************************)
StudentStep == Outcome("student", None, TRUE, "", <<>>, None)

\* "Send for Validation": the request is built and add_pending_request
\* loads the list and appends to its copy
SendLoad(s, student_id, p) ==
  LET req == NewRequest(student_id, p, now)
      sending == {u \in Sessions : sess[u].pc = "send_save"}
  IN  /\ sess[s].pc = "idle"
      /\ BagCardinality(hist.submitted) + Cardinality(sending) < MaxSubmits
      /\ sess' = [sess EXCEPT ![s] =
                    [IdleSession EXCEPT
                       !.pc = "send_save", !.handler = "send",
                       !.req = Some(req),
                       !.data = Append(load_json(disk, PENDING_FILE), req)]]
      /\ last' = StudentStep
      /\ UNCHANGED <<disk, now, hist>>

\* add_pending_request: save_json; the Submit is complete
SendSave(s) ==
  /\ sess[s].pc = "send_save"
  /\ disk' = save_json(disk, PENDING_FILE, sess[s].data)
  /\ hist' = [hist EXCEPT !.submitted = @ (+) SetToBag({sess[s].req[1]})]
  /\ last' = Outcome("submit", sess[s].req, TRUE, "",
                     sess[s].req[1].student_id, None)
  /\ sess' = [sess EXCEPT ![s] = IdleSession]
  /\ UNCHANGED now

NextSend ==
  \/ Tick
  \/ \E s \in Sessions, sp \in Submissions : SendLoad(s, sp[1], sp[2])
  \/ \E s \in Sessions : SendSave(s)
  \/ \E s \in Sessions, req \in AllRequests : DashReject(s, req)
  \/ \E s \in Sessions : RmLoad(s)
  \/ \E s \in Sessions : RmSave(s)
  \/ \E s \in Sessions : NoteLoad(s)
  \/ \E s \in Sessions : NoteSave(s)

SpecSend == Init /\ [][NextSend]_vars

(***************************************************************************)
(* The dashboard signs one request and add_signed_block checks that        *)
(* signature against the fields of another.                                *)
(***************************************************************************)
MessageIds == {<<"a", "1">>, <<"a">>}

MessageDetails ==
  {Details(<<0, 62, 2>>), Details(<<0, 62, 22>>), Details(<<10, 62, 2>>)}

MessageScores == {calculate_rent_score(0, 62, 2), 8, 228}

MessageRequests ==
  [student_id : MessageIds, details : MessageDetails, score : MessageScores]

InitMessage ==
  /\ disk = [f \in FileNames |-> AbsentFile]
  /\ now = 1
  /\ sess = [s \in Sessions |-> IdleSession]
  /\ hist = [submitted |-> EmptyBag, approved |-> EmptyBag,
             rejected |-> EmptyBag, runs |-> 0]
  /\ \E signed \in MessageRequests, presented \in MessageRequests :
        last = Outcome("requests", Some(signed), TRUE, "", <<presented>>,
                       None)

\* msg = f"{req['student_id']}{req['details']}{req['score']}";
\* signature = VALIDATOR_SK.sign(msg.encode()).hex()
SignRequest ==
  /\ last.op = "requests"
  /\ LET req == last.req[1]
         msg == CanonicalMessage(req.student_id, req.details, req.score)
     IN  last' = [Outcome("signed", last.req, TRUE, "", last.id,
                          Some(Sign(VALIDATOR_SK, msg)))
                    EXCEPT !.validator = DASHBOARD_VALIDATOR,
                           !.signer = VALIDATOR_SK]
  /\ UNCHANGED <<disk, now, sess, hist>>

\* the checks of add_signed_block on the presented request
VerifyPresented ==
  /\ last.op = "signed"
  /\ LET answer == SignedBlockError(last.id[1], last.result[1],
                                    last.validator)
     IN  last' = [Outcome("verified", last.req, answer = "Block mined.",
                          answer, last.id, last.result)
                    EXCEPT !.validator = last.validator,
                           !.signer = last.signer]
  /\ UNCHANGED <<disk, now, sess, hist>>

NextMessage ==
  \/ SignRequest
  \/ VerifyPresented

SpecMessage == InitMessage /\ [][NextMessage]_vars

(***************************************************************************)
(* calculate_rent_score called with the values of the sliders and with     *)
(* values the sliders cannot give.                                         *)
(***************************************************************************)
CallInputs == {0 - 100, 0 - 25, 0 - 1, 0, 50, 100}

CallArguments ==
  (IncomeInputs \X GuarantorInputs \X HistoryInputs)
    \cup (CallInputs \X CallInputs \X CallInputs)

InitCall ==
  /\ disk = [f \in FileNames |-> AbsentFile]
  /\ now = 1
  /\ sess = [s \in Sessions |-> IdleSession]
  /\ hist = [submitted |-> EmptyBag, approved |-> EmptyBag,
             rejected |-> EmptyBag, runs |-> 0]
  /\ \E arguments \in CallArguments :
        last = Outcome("arguments", None, TRUE, "", arguments, None)

\* calculate_rent_score(income, guarantor, history): result is what the
\* caller gets
CallScore ==
  /\ last.op = "arguments"
  /\ last' = Outcome("calculate_rent_score", None, TRUE, "", last.id,
                     Some(calculate_rent_score(last.id[1], last.id[2],
                                               last.id[3])))
  /\ UNCHANGED <<disk, now, sess, hist>>

NextCall == CallScore

SpecCall == InitCall /\ [][NextCall]_vars

(***************************************************************************)
(* Properties.                                                             *)
(***************************************************************************)
IsPrefix(a, b) == Len(a) <= Len(b) /\ SubSeq(b, 1, Len(a)) = a

AllIdle == \A s \in Sessions : sess[s].pc = "idle"

\* the positions of the chain whose block belongs to the looked-up id
MatchingPositions(chain, id) ==
  {i \in 1..Len(chain) : strip(chain[i].student_id) = strip(id)}

\* C1: with the operations run one at a time, every block after the first
\* carries the hash of its predecessor as previous_hash, and
\* verify_chain_integrity holds of the persisted chain in every state.
C1_ChainIntegrity ==
  LET chain == load_chain(disk)
  IN  /\ \A i \in 2..Len(chain) : chain[i].previous_hash = chain[i - 1].hash
      /\ chain # <<>> => chain[1].previous_hash = <<"0">>
      /\ verify_chain_integrity(chain)

C1_Witness ==
  /\ last.op = "approve" /\ last.ok
  /\ Len(load_chain(disk)) >= 2

\* C2: when two dashboard sessions have each approved a request, the two
\* requests being of different subjects and the ledger having started empty,
\* the persisted ledger holds exactly two blocks, with indices 1 and 2, the
\* second linked to the first.
C2_TwoApprovesTwoBlocks ==
  ( /\ AllIdle
    /\ hist.runs = 2
    /\ BagCardinality(hist.approved) = 2
    /\ \E r1, r2 \in BagToSet(hist.approved) : r1.student_id # r2.student_id )
  => LET chain == load_chain(disk)
     IN  /\ Len(chain) = 2
         /\ chain[1].index = 1
         /\ chain[2].index = 2
         /\ chain[2].previous_hash = chain[1].hash

\* C3: every step leaves the persisted chain of before as a prefix of the
\* persisted chain of after, also when dashboard sessions interleave.
C3_AppendOnly ==
  [][IsPrefix(load_chain(disk), load_chain(disk'))]_vars

\* C4: an Approve under the registered validator name whose signature was
\* made with another key than the registered one fails and changes no file:
\* the chain is as before, the request is still pending, no acceptance
\* notice is added.
C4_BadSignatureChangesNothing ==
  [][ ( /\ last'.op = "approve"
        /\ last'.validator \in DOMAIN TRUSTED_VALIDATORS
        /\ verifying_key(last'.signer) # TRUSTED_VALIDATORS[last'.validator] )
      => ( /\ ~last'.ok
           /\ last'.msg = "Invalid Signature!"
           /\ load_chain(disk') = load_chain(disk)
           /\ last'.req[1] \in Elements(get_pending_requests(disk'))
           /\ get_pending_requests(disk') = get_pending_requests(disk)
           /\ load_json(disk', ACCEPTED_FILE) = load_json(disk, ACCEPTED_FILE)
           /\ disk' = disk ) ]_vars

C4_Witness ==
  /\ last.op = "approve"
  /\ last.validator = DASHBOARD_VALIDATOR
  /\ last.signer = OTHER_SK
  /\ ~last.ok
  /\ last.req[1] \in Elements(get_pending_requests(disk))

\* C5: right after a successful Approve of request r, no pending entry has
\* r's timestamp, the lookup of r's student id gives a block with r's score
\* and details, and the acceptance notice of r's student is set.
C5_ApproveEffects ==
  (last.op = "approve" /\ last.ok)
  => LET r     == last.req[1]
         found == get_student_score(disk, r.student_id)
     IN  /\ \A q \in Elements(get_pending_requests(disk)) :
               q.timestamp # r.timestamp
         /\ r \notin Elements(get_pending_requests(disk))
         /\ found # None
         /\ found[1].score = r.score
         /\ found[1].details = r.details
         /\ get_acceptance(disk, r.student_id) # None

C5_Witness ==
  /\ last.op = "approve" /\ last.ok
  /\ get_pending_requests(disk) # <<>>

\* C6: a Reject leaves the ledger file as it was, leaves no pending entry
\* with the request's timestamp, and the latest rejection notice of the
\* request's student carries the reason given.
C6_RejectEffects ==
  [][ last'.op = "reject"
      => LET r      == last'.req[1]
             notice == get_rejection(disk', r.student_id)
         IN  /\ disk'[LEDGER_FILE] = disk[LEDGER_FILE]
             /\ r \in Elements(get_pending_requests(disk))
             /\ \A q \in Elements(get_pending_requests(disk')) :
                   q.timestamp # r.timestamp
             /\ notice # None
             /\ notice[1].reason = REJECT_REASON
             /\ Len(load_json(disk', REJECTED_FILE))
                  = Len(load_json(disk, REJECTED_FILE)) + 1 ]_vars

C6_Witness ==
  /\ last.op = "reject"
  /\ load_chain(disk) # <<>>
  /\ get_rejection(disk, last.req[1].student_id) # None

\* C7: in every state, every block of the persisted chain names a
\* registered validator and its signature verifies under that validator's
\* registered key over student_id, details, score of the same block.
C7_SignatureAuthenticity ==
  \A b \in Elements(load_chain(disk)) :
     /\ b.validator \in DOMAIN TRUSTED_VALIDATORS
     /\ verify_signature(CanonicalMessage(b.student_id, b.details, b.score),
                         b.signature, TRUSTED_VALIDATORS[b.validator])
     /\ b.signature = Sign(VALIDATOR_SK,
                           CanonicalMessage(b.student_id, b.details, b.score))

\* an Approve with a foreign key was refused while the chain holds blocks
C7_Witness ==
  /\ last.op = "approve" /\ ~last.ok
  /\ last.signer = OTHER_SK
  /\ load_chain(disk) # <<>>

\* C8: a request that is the only one its student submitted leaves at most
\* one block of that student in the persisted chain, and never both a block
\* and a rejection notice of that student.
C8_ExactlyOnce ==
  \A r \in BagToSet(hist.submitted) :
     ( /\ CopiesIn(r, hist.submitted) = 1
       /\ \A q \in BagToSet(hist.submitted) :
             q.student_id = r.student_id => q = r )
     => LET blocks == MatchingPositions(load_chain(disk), r.student_id)
        IN  /\ Cardinality(blocks) <= 1
            /\ ~(blocks # {} /\ get_rejection(disk, r.student_id) # None)

\* C9: an Accept handler whose request was no longer in the pending file
\* when add_signed_block was called persists no block and sets no
\* acceptance notice.
C9_StaleApproveFails ==
  \A s \in Sessions :
     (sess[s].handler = "accept" /\ sess[s].stale)
     => sess[s].pc \notin {"rm_load", "rm_save", "note_load", "note_save"}

\* C10: a lookup gives None when no block of the chain belongs to the id,
\* and otherwise the block of that id with the greatest index, the chain
\* keeping the earlier blocks of the id.
C10_LookupLatest ==
  last.op = "lookup"
  => LET chain    == load_chain(disk)
         matching == MatchingPositions(chain, last.id)
     IN  IF matching = {} THEN last.result = None
         ELSE /\ last.result # None
              /\ \E i \in matching : chain[i] = last.result[1]
              /\ \A i \in matching : chain[i].index <= last.result[1].index

C10_Witness ==
  /\ last.op = "lookup"
  /\ last.result # None
  /\ Cardinality(MatchingPositions(load_chain(disk), last.id)) >= 2

\* the file system in which only the ledger file is kept
LedgerOnly(fs) ==
  [f \in FileNames |->
     IF f = LEDGER_FILE THEN fs[f] ELSE AbsentFile]

\* C11: a lookup changes no file, its result is the result the ledger file
\* alone gives, and it is None for an id none of whose requests has been
\* approved (they are pending or were rejected).
C11_LookupReadsLedgerOnly ==
  [][ last'.op = "lookup"
      => /\ disk' = disk
         /\ last'.result = get_student_score(LedgerOnly(disk), last'.id)
         /\ (\A r \in BagToSet(hist.approved) :
                r.student_id # strip(last'.id))
            => last'.result = None ]_vars

\* a lookup of a student with one request rejected and one still pending
C11_Witness ==
  /\ last.op = "lookup"
  /\ last.result = None
  /\ \E q \in Elements(get_pending_requests(disk)) :
        q.student_id = strip(last.id)
  /\ get_rejection(disk, strip(last.id)) # None

\* C12: in every state the block at position k of the persisted chain has
\* index k, so the indices run 1, 2, ... without gap or repetition.
C12_IndexContiguity ==
  LET chain == load_chain(disk)
  IN  /\ \A k \in 1..Len(chain) : chain[k].index = k
      /\ \A j, k \in 1..Len(chain) :
            j < k => chain[j].index < chain[k].index

C12_Witness ==
  LET chain == load_chain(disk)
  IN  /\ Len(chain) >= 2
      /\ chain[1].index = 1
      /\ chain[Len(chain)].index = Len(chain)
      /\ chain[1].student_id # chain[2].student_id

\* C13: whenever the block of an approved request is in the ledger, the
\* request (submitted once) is no longer in the pending file and the
\* acceptance notice of its student is set, in every state another session
\* can read.
C13_ApproveAtomic ==
  \A r \in BagToSet(hist.approved) :
     CopiesIn(r, hist.submitted) = 1
     => /\ r \notin Elements(get_pending_requests(disk))
        /\ get_acceptance(disk, r.student_id) # None

\* C14: with one session appending to the ledger, a lookup of an id one of
\* whose requests has been approved, and its block saved, finds a block,
\* also while the block of another request is being saved.
C14_ReadSeesWholeChain ==
  ( /\ last.op = "lookup"
    /\ \E r \in BagToSet(hist.approved) : r.student_id = strip(last.id) )
  => last.result # None

\* C15: any two entries of the pending file have different timestamps, so
\* remove_pending_request with the timestamp of an entry removes that entry
\* and no other.
C15_RemovalKeysDistinct ==
  LET pending == get_pending_requests(disk)
  IN  \A i \in 1..Len(pending) :
         /\ \A j \in 1..Len(pending) :
               i # j => pending[i].timestamp # pending[j].timestamp
         /\ Len(get_pending_requests(
                  remove_pending_request(disk, pending[i].timestamp)))
              = Len(pending) - 1

\* C16: for slider values in 0..100 the projected score is
\* min((4*income + 3*guarantor + 2*history + 100) div 10, 100).
C16_ScoreFormula ==
  last.op = "score"
  => LET income    == last.id[1]
         guarantor == last.id[2]
         history   == last.id[3]
     IN  last.result[1]
           = Min((4 * income + 3 * guarantor + 2 * history + 100) \div 10,
                 100)

\* the chain with the score of the block at position k replaced by score
TamperScore(chain, k, score) == [chain EXCEPT ![k].score = score]

TamperedScores == {0, 8, 28, 29, 82, 100}

\* the signature of block b verifies under the key of its validator over
\* the student_id, details and score the block holds
BlockVerifies(b) ==
  verify_signature(CanonicalMessage(b.student_id, b.details, b.score),
                   b.signature, TrustedGet(b.validator))

\* C17: replacing only the score of any block of the persisted chain by
\* another value makes the block's signature fail over the block's fields,
\* while verify_chain_integrity of the changed chain is still true.
C17_TamperedScore ==
  LET chain == load_chain(disk)
  IN  \A k \in 1..Len(chain), score \in TamperedScores :
         score # chain[k].score
         => LET tampered == TamperScore(chain, k, score)
            IN  /\ BlockVerifies(chain[k])
                /\ ~BlockVerifies(tampered[k])
                /\ verify_chain_integrity(tampered)
                /\ \A j \in 1..Len(chain) :
                      j # k => tampered[j] = chain[j]

C17_Witness ==
  LET chain == load_chain(disk)
  IN  /\ Len(chain) >= 2
      /\ chain[1].score = 28
      /\ chain[2].score = 82
      /\ ~BlockVerifies(TamperScore(chain, 1, 29)[1])
      /\ verify_chain_integrity(TamperScore(chain, 1, 29))

\* C18: a lookup or an integrity check changes no file, and the same call
\* made again right after it gives the result the first call gave.
C18_ReadIdempotent ==
  [][ /\ last'.op = "lookup"
         => /\ disk' = disk
            /\ get_student_score(disk', strip(last'.id)) = last'.result
      /\ last'.op = "verify"
         => /\ disk' = disk
            /\ verify_chain_integrity(load_chain(disk')) = last'.ok ]_vars

\* a lookup that found a block in a chain of two, about to be repeated
C18_Witness ==
  /\ last.op = "lookup"
  /\ last.result # None
  /\ Len(load_chain(disk)) >= 2
  /\ get_student_score(disk, strip(last.id)) = last.result

\* C19: remove_pending_request with a timestamp no pending entry carries
\* leaves the pending list as it was, and applying it twice with the same
\* timestamp leaves the files as applying it once does.
C19_RemoveIdempotent ==
  LET pending == get_pending_requests(disk)
  IN  \A t \in 1..(MaxClock + 1) :
         LET once  == remove_pending_request(disk, t)
             twice == remove_pending_request(once, t)
         IN  /\ twice = once
             /\ get_pending_requests(twice) = get_pending_requests(once)
             /\ (\A q \in Elements(pending) : q.timestamp # t)
                => get_pending_requests(once) = pending

\* a request has been removed and another one, of a later time, is pending
C19_Witness ==
  /\ last.op = "reject"
  /\ get_pending_requests(disk) # <<>>
  /\ \A q \in Elements(get_pending_requests(disk)) :
        q.timestamp # last.req[1].timestamp
  /\ get_pending_requests(remove_pending_request(disk,
                                                 last.req[1].timestamp))
       = get_pending_requests(disk)

\* C20: after an Approve or a Reject the notice read for the student is the
\* one just set; reading the notices changes no file; a notice read for a
\* student is the same after every step that neither sets nor clears that
\* kind of notice for that student; after a Dismiss it reads as None.
C20_Notices ==
  [][ /\ (last'.op = "approve" /\ last'.ok)
         => get_acceptance(disk', last'.id)
              = Some([student_id |-> last'.id, timestamp |-> now'])
      /\ last'.op = "reject"
         => get_rejection(disk', last'.id)
              = Some([student_id |-> last'.id, reason |-> REJECT_REASON,
                      timestamp |-> now'])
      /\ last'.op = "notices"
         => /\ disk' = disk
            /\ last'.result = <<get_acceptance(disk', last'.id),
                                get_rejection(disk', last'.id)>>
      /\ last'.op = "clear_acceptance"
         => get_acceptance(disk', last'.id) = None
      /\ last'.op = "clear_rejection"
         => get_rejection(disk', last'.id) = None
      /\ \A s \in Subjects :
            /\ ~( /\ last'.id = s
                  /\ \/ last'.op = "approve" /\ last'.ok
                     \/ last'.op = "clear_acceptance" )
               => get_acceptance(disk', s) = get_acceptance(disk, s)
            /\ ~(last'.id = s /\ last'.op \in {"reject", "clear_rejection"})
               => get_rejection(disk', s) = get_rejection(disk, s) ]_vars

\* the notices of a student approved at two different times are read
C20_Witness ==
  /\ last.op = "notices"
  /\ Len(load_json(disk, ACCEPTED_FILE)) >= 2
  /\ load_json(disk, ACCEPTED_FILE)[1].student_id = last.id
  /\ load_json(disk, ACCEPTED_FILE)[2].student_id = last.id
  /\ load_json(disk, ACCEPTED_FILE)[1].timestamp
       < load_json(disk, ACCEPTED_FILE)[2].timestamp
  /\ last.result[1] = Some(load_json(disk, ACCEPTED_FILE)[2])

\* C21: an Approve under a validator name that is not registered fails with
\* "Validator not found.", whatever the signature, and changes no file: the
\* chain is as before, the request is still pending and the acceptance
\* notice read for its student is as before.
C21_UnknownValidator ==
  [][ ( /\ last'.op = "approve"
        /\ last'.validator \notin DOMAIN TRUSTED_VALIDATORS )
      => ( /\ ~last'.ok
           /\ last'.msg = "Validator not found."
           /\ load_chain(disk') = load_chain(disk)
           /\ last'.req[1] \in Elements(get_pending_requests(disk'))
           /\ get_acceptance(disk', last'.id) = get_acceptance(disk, last'.id)
           /\ disk' = disk ) ]_vars

\* the unregistered name came with a signature of a foreign key
C21_Witness ==
  /\ last.op = "approve"
  /\ last.validator = "UNKNOWN"
  /\ last.signer = OTHER_SK
  /\ last.msg = "Validator not found."
  /\ last.req[1] \in Elements(get_pending_requests(disk))
  /\ load_chain(disk) # <<>>

\* C22: whatever the message, signature text and key text, a call of
\* verify_signature gives its caller True or False and no exception, and
\* True only for a signature made over that message with the signing key
\* of that key.
C22_VerifyNeverRaises ==
  last.op = "verify_signature"
  => /\ last.msg \in {"True", "False"}
     /\ last.ok <=> last.msg = "True"
     /\ last.msg = "True"
        <=> \E sk \in SigningKeys :
               /\ verifying_key(sk) = last.signer
               /\ last.result[1] = Sign(sk, last.id)

\* a well-formed key met a signature text that is not hex
C22_Witness ==
  /\ last.op = "verify_signature"
  /\ last.signer = VALIDATOR_PUB_KEY_HEX
  /\ last.result[1] \in NonHexSignatures
  /\ last.msg = "False"
  /\ VerifyTry(last.id, last.result[1], last.signer) = "ValueError"

\* the file system in which only file f is kept
OnlyFile(fs, f) == [g \in FileNames |-> IF g = f THEN fs[g] ELSE AbsentFile]

\* the file system in which every file but f is there and unreadable
OthersDamaged(fs, f) ==
  [g \in FileNames |->
     IF g = f THEN fs[g]
     ELSE [exists |-> TRUE, parses |-> FALSE, content |-> fs[g].content]]

\* C23: load_json of a file that is missing, or that json.load cannot read,
\* gives the empty list, for each of the four files; and what it gives for
\* one file is the same with the other three files missing or unreadable.
C23_LoadDegradesToEmpty ==
  \A f \in FileNames :
     /\ (~disk[f].exists \/ ~disk[f].parses) => load_json(disk, f) = <<>>
     /\ (disk[f].exists /\ disk[f].parses)
        => load_json(disk, f) = disk[f].content
     /\ load_json(OnlyFile(disk, f), f) = load_json(disk, f)
     /\ load_json(OthersDamaged(disk, f), f) = load_json(disk, f)

\* a ledger file that held a block is unreadable, another file is missing
\* and the pending file is readable and not empty
C23_Witness ==
  /\ disk[LEDGER_FILE].exists
  /\ ~disk[LEDGER_FILE].parses
  /\ disk[LEDGER_FILE].content # <<>>
  /\ load_chain(disk) = <<>>
  /\ ~disk[REJECTED_FILE].exists
  /\ get_pending_requests(disk) # <<>>

\* C24: when save_chain fails inside an Accept, the failure reaches the
\* dashboard, the request is still pending, the acceptance notice read for
\* its student is as before, and the chain read from the ledger file is
\* the chain add_signed_block had loaded.
C24_FailClosed ==
  [][ last'.op = "persist_failed"
      => LET loaded == SubSeq(sess[Writer].chain, 1,
                              Len(sess[Writer].chain) - 1)
         IN  /\ ~last'.ok
             /\ last'.req[1] \in Elements(get_pending_requests(disk'))
             /\ get_acceptance(disk', last'.id) = get_acceptance(disk, last'.id)
             /\ load_chain(disk') = loaded ]_vars

\* C25: when the process stops after save_chain and before the pending
\* file is rewritten, the request is still pending and its block is in the
\* chain; and in every state, so also after the Accept of that request has
\* been run again, every block links to the hash of its predecessor, the
\* first to "0", and the block at position k has index k.
C25_CrashRetry ==
  LET chain == load_chain(disk)
  IN  /\ (last.op = "crash" /\ last.msg \in {"rm_load", "rm_save"})
         => /\ last.req[1] \in Elements(get_pending_requests(disk))
            /\ \E b \in Elements(chain) :
                  /\ b.student_id = last.req[1].student_id
                  /\ b.details = last.req[1].details
                  /\ b.score = last.req[1].score
      /\ chain # <<>> => chain[1].previous_hash = <<"0">>
      /\ \A k \in 2..Len(chain) : chain[k].previous_hash = chain[k - 1].hash
      /\ \A k \in 1..Len(chain) : chain[k].index = k

\* a request submitted once has two blocks: its Accept was run again after
\* a stop between save_chain and remove_pending_request
C25_Witness ==
  \E r \in BagToSet(hist.submitted) :
     /\ CopiesIn(r, hist.submitted) = 1
     /\ BagCardinality(hist.submitted) = 1
     /\ CopiesIn(r, hist.approved) = 2
     /\ Len(load_chain(disk)) = 2
     /\ load_chain(disk)[2].student_id = r.student_id
     /\ get_acceptance(disk, r.student_id) # None

\* C26: a step changes the chain read from the ledger file only if it is a
\* successful Approve, which appends one block with the student_id, details
\* and score of the approved request; a Submit, Reject, Lookup, Dismiss or
\* failed Approve leaves the ledger file as it was; and every block of the
\* chain has the student_id, details and score of a submitted request.
C26_BlocksOnlyByApprove ==
  [][ /\ load_chain(disk') # load_chain(disk)
         => /\ last'.op = "approve" /\ last'.ok
            /\ Len(load_chain(disk')) = Len(load_chain(disk)) + 1
            /\ IsPrefix(load_chain(disk), load_chain(disk'))
            /\ LET b == load_chain(disk')[Len(load_chain(disk'))]
                   r == last'.req[1]
               IN  /\ b.student_id = r.student_id
                   /\ b.details = r.details
                   /\ b.score = r.score
      /\ ~(last'.op = "approve" /\ last'.ok)
         => disk'[LEDGER_FILE] = disk[LEDGER_FILE]
      /\ \A b \in Elements(load_chain(disk')) :
            \E r \in BagToSet(hist'.submitted) :
               /\ b.student_id = r.student_id
               /\ b.details = r.details
               /\ b.score = r.score ]_vars

\* an Approve has failed next to a chain of one block, of another student
C26_Witness ==
  /\ last.op = "approve" /\ ~last.ok
  /\ Len(load_chain(disk)) = 1
  /\ load_chain(disk)[1].student_id # last.req[1].student_id
  /\ last.req[1] \in Elements(get_pending_requests(disk))

\* C27: in the persisted chain the first block has previous_hash "0", every
\* later block has the hash of the block before it as previous_hash, and
\* the hash of each block is sha256 of its student_id, details, timestamp,
\* previous_hash and signature joined in this order; a block built on the
\* same predecessors at the same time from another score and under another
\* validator name has the same hash.
C27_BlockConstruction ==
  LET chain == load_chain(disk)
  IN  /\ chain # <<>> => chain[1].previous_hash = <<"0">>
      /\ \A k \in 2..Len(chain) : chain[k].previous_hash = chain[k - 1].hash
      /\ \A k \in 1..Len(chain) :
            LET b == chain[k]
            IN  /\ b.hash = sha256(b.student_id \o b.details \o b.timestamp
                                     \o b.previous_hash \o b.signature)
                /\ \A score \in TamperedScores, t \in 1..MaxClock :
                      isoformat(t) = b.timestamp
                      => NewBlock(SubSeq(chain, 1, k - 1),
                                  [student_id |-> b.student_id,
                                   details |-> b.details,
                                   score |-> score, timestamp |-> t],
                                  b.signature, "UNKNOWN", t).hash = b.hash

\* two blocks appended at different times, the second on top of the first
C27_Witness ==
  LET chain == load_chain(disk)
  IN  /\ Len(chain) = 2
      /\ chain[1].timestamp # chain[2].timestamp
      /\ chain[1].previous_hash = <<"0">>
      /\ chain[2].previous_hash = chain[1].hash
      /\ chain[2].hash = sha256(chain[2].student_id \o chain[2].details
                                  \o chain[2].timestamp \o chain[1].hash
                                  \o chain[2].signature)

\* C28: a Submit puts its request at the end of the pending list; an
\* Approve or Reject takes its request out and leaves the entries that
\* remain in the order they had; so the pending list is in the order of
\* submission, the timestamps never decreasing along it.
C28_PendingOrder ==
  [][ LET before == get_pending_requests(disk)
          after  == get_pending_requests(disk')
      IN  /\ last'.op = "submit" => after = Append(before, last'.req[1])
          /\ last'.op \in {"approve", "reject"}
             => /\ after = SelectSeq(before,
                                     LAMBDA q : q \in Elements(after))
                /\ last'.req[1] \notin Elements(after)
          /\ last'.op = "tick" => after = before
          /\ \A i, j \in 1..Len(after) :
                i < j => after[i].timestamp <= after[j].timestamp ]_vars

\* the newest of three requests was removed and the two older ones, of
\* different students, remain
C28_Witness ==
  LET pending == get_pending_requests(disk)
  IN  /\ last.op = "reject"
      /\ Len(pending) = 2
      /\ pending[1].student_id # pending[2].student_id
      /\ \A i \in 1..2 : pending[i].timestamp < last.req[1].timestamp

\* C29: a Submit leaves every file but the pending file as it was; a Reject
\* leaves the ledger file and the acceptance file as they were; a successful
\* Approve leaves the rejection file as it was; a Dismiss of one kind of
\* notice of one student leaves the ledger file, the pending file, the file
\* of the other kind and the notices of every other student as they were.
C29_Frames ==
  [][ /\ last'.op = "submit"
         => \A f \in FileNames \ {PENDING_FILE} : disk'[f] = disk[f]
      /\ last'.op = "reject"
         => /\ disk'[LEDGER_FILE] = disk[LEDGER_FILE]
            /\ disk'[ACCEPTED_FILE] = disk[ACCEPTED_FILE]
      /\ (last'.op = "approve" /\ last'.ok)
         => disk'[REJECTED_FILE] = disk[REJECTED_FILE]
      /\ last'.op = "clear_acceptance"
         => /\ \A f \in FileNames \ {ACCEPTED_FILE} : disk'[f] = disk[f]
            /\ WithoutStudent(load_json(disk', ACCEPTED_FILE), last'.id)
                 = WithoutStudent(load_json(disk, ACCEPTED_FILE), last'.id)
            /\ \A s \in Subjects \ {last'.id} :
                  get_acceptance(disk', s) = get_acceptance(disk, s)
      /\ last'.op = "clear_rejection"
         => /\ \A f \in FileNames \ {REJECTED_FILE} : disk'[f] = disk[f]
            /\ WithoutStudent(load_json(disk', REJECTED_FILE), last'.id)
                 = WithoutStudent(load_json(disk, REJECTED_FILE), last'.id)
            /\ \A s \in Subjects \ {last'.id} :
                  get_rejection(disk', s) = get_rejection(disk, s) ]_vars

\* one student has dismissed the acceptance notice, the other student's
\* notice is still there
C29_Witness ==
  /\ last.op = "clear_acceptance"
  /\ get_acceptance(disk, last.id) = None
  /\ \E s \in Subjects \ {last.id} : get_acceptance(disk, s) # None
  /\ Len(load_chain(disk)) = 2

\* C30: a request whose Submit is complete is in the pending list unless a
\* Reject has rewritten the pending file without the entries of that
\* request's timestamp.
C30_NoLostSubmission ==
  \A r \in BagToSet(hist.submitted) :
     r \in Elements(get_pending_requests(disk))
     \/ \E q \in BagToSet(hist.rejected) : q.timestamp = r.timestamp
     \/ \E s \in Sessions :
           /\ sess[s].pc \in {"note_load", "note_save"}
           /\ sess[s].req[1].timestamp = r.timestamp

\* C31: a request that Reject has removed from the pending queue, and that
\* was submitted only once, is not listed as pending in any later state,
\* whatever Submit and Remove operations run beside it.
C31_RemovedStaysRemoved ==
  \A r \in BagToSet(hist.rejected) :
    CopiesIn(r, hist.submitted) = 1
      => r \notin Elements(get_pending_requests(disk))

\* C32: an Approve made under the registered validator's name with the
\* registered validator's key is never refused: it reports "Block mined.",
\* the request leaves the pending list and is counted as approved, and the
\* latest block of its student carries the request's data and a signature
\* that verifies over the request's canonical message.
C32_HonestApproveSucceeds ==
  (/\ last.op = "approve"
   /\ last.validator = DASHBOARD_VALIDATOR
   /\ last.signer = VALIDATOR_SK)
  => LET r     == last.req[1]
         found == get_student_score(disk, r.student_id)
     IN  /\ last.ok
         /\ last.msg = "Block mined."
         /\ r \notin Elements(get_pending_requests(disk))
         /\ BagIn(r, hist.approved)
         /\ found # None
         /\ found[1].details = r.details
         /\ found[1].score = r.score
         /\ verify_signature(
              CanonicalMessage(r.student_id, r.details, r.score),
              found[1].signature, VALIDATOR_PUB_KEY_HEX)

C32_Witness ==
  /\ last.op = "approve"
  /\ last.validator = DASHBOARD_VALIDATOR
  /\ last.signer = VALIDATOR_SK
  /\ last.ok
  /\ Len(load_chain(disk)) = 2
  /\ get_pending_requests(disk) = <<>>

\* C33: whenever the acceptance notice of a student is set, the ledger holds
\* at least one block of that student.
C33_AcceptanceImpliesBlock ==
  \A id \in Subjects :
    get_acceptance(disk, id) # None => get_student_score(disk, id) # None

\* C34: a successful Approve leaves every block that was stored in the
\* ledger file before it in the chain that is read back after it, also
\* when the file could not be read at the time of the Approve.
C34_ReadFailureKeepsHistory ==
  [][ (last'.op = "approve" /\ last'.ok)
      => \A b \in Elements(disk[LEDGER_FILE].content) :
            b \in Elements(load_chain(disk')) ]_vars

RECURSIVE ParseInt(_)
ParseInt(s) ==
  IF s = <<>> THEN 0
  ELSE 10 * ParseInt(SubSeq(s, 1, Len(s) - 1))
         + (CHOOSE d \in 0..9 : DigitChars[d + 1] = s[Len(s)])

\* the fields of a text between the occurrences of sep
RECURSIVE SplitOn(_, _)
SplitOn(s, sep) ==
  IF \A i \in 1..Len(s) : s[i] # sep THEN <<s>>
  ELSE LET i == CHOOSE j \in 1..Len(s) :
                  s[j] = sep /\ \A k \in 1..(j - 1) : s[k] # sep
       IN  <<SubSeq(s, 1, i - 1)>> \o SplitOn(SubSeq(s, i + 1, Len(s)), sep)

\* C36: every pending request and every block of the ledger has a details
\* text of three numbers "income-guarantor-history" and the score that
\* calculate_rent_score gives for these three numbers.
C36_ScoreMatchesDetails ==
  \A q \in Elements(get_pending_requests(disk))
             \cup Elements(load_chain(disk)) :
    LET fields == SplitOn(q.details, "-")
    IN  /\ Len(fields) = 3
        /\ q.score = calculate_rent_score(ParseInt(fields[1]),
                                          ParseInt(fields[2]),
                                          ParseInt(fields[3]))

C36_Witness ==
  /\ get_pending_requests(disk) # <<>>
  /\ \E i \in 1..Len(load_chain(disk)) :
        /\ load_chain(disk)[i].details = Details(<<0, 62, 2>>)
        /\ load_chain(disk)[i].score = 28

\* C37: for arguments in 0..100 the score is in 10..100 and is the value
\* before min(.., 100), which is at most 100; nothing bounds the score from
\* below: for arguments not above 0 and not all 0 the score is the value
\* before min, it is below 10, it is within one of
\* (4*income + 3*guarantor + 2*history + 100) / 10, and for (-100, -100,
\* -100) it is -80.
C37_ScoreRange ==
  last.op = "calculate_rent_score"
  => LET income    == last.id[1]
         guarantor == last.id[2]
         history   == last.id[3]
         score     == last.result[1]
         before    == ScoreBeforeMin(income, guarantor, history)
         tenths    == 4 * income + 3 * guarantor + 2 * history + 100
     IN  /\ (\A i \in 1..3 : last.id[i] \in 0..100)
              => /\ score \in 10..100
                 /\ before <= 100
                 /\ score = before
         /\ ((\A i \in 1..3 : last.id[i] <= 0) /\ last.id # <<0, 0, 0>>)
              => /\ score < 10
                 /\ score = before
                 /\ 10 * score - tenths \in (0 - 10)..10
         /\ last.id = <<0 - 100, 0 - 100, 0 - 100>> => score = 0 - 80

C37_Witness ==
  /\ last.op = "calculate_rent_score"
  /\ last.id = <<0 - 100, 0 - 25, 0 - 1>>
  /\ last.result[1] < 0

\* the fields of a block that are texts and are neither hash nor
\* previous_hash
ContentFields == {"student_id", "details", "timestamp", "signature"}

\* the chain with one field of the block at position k replaced by text
TamperField(chain, k, field, text) ==
  [chain EXCEPT ![k] = [@ EXCEPT ![field] = text]]

\* some block after the first does not carry the stored hash of the block
\* before it
BrokenLink(chain) ==
  \E i \in 2..Len(chain) : chain[i].previous_hash # chain[i - 1].hash

====
